---- MODULE Spec2Model ----
(***************************************************************************)
(* Model of the Midway arena server (src/server.js): the arena state, the  *)
(* spawner, the physics step, the command handlers and the main loop.      *)
(*                                                                         *)
(* Numbers.  JavaScript numbers are IEEE-754 doubles.  The model keeps     *)
(* them in fixed point and rounds every product to the nearest unit:       *)
(*   positions, velocities, targets : 1/1000 of an arena unit  (UNIT)      *)
(*   energy, ttl                    : 1/1000000                (MICRO)     *)
(*   a Math.random() result         : thousandths, 0..999                  *)
(*   times                          : milliseconds since the module loaded *)
(* The two non-finite doubles the code can produce, Infinity and NaN, are  *)
(* kept as values of their own, with the IEEE-754 rules for them.          *)
(***************************************************************************)
EXTENDS Integers, Sequences, FiniteSets, TLC

VARIABLES
  agents,            \* arenaState.agents: sequence of agent records
  factions,          \* arenaState.factions: sequence of faction records
  tick,              \* arenaState.tick
  playerFocus,       \* arenaState.playerFocus: playerId -> [x, y, ttl]
  now,               \* the value Date.now() returned in the current timer callback
  lastSimTime,       \* let lastSimTime
  lastBroadcastTime, \* let lastBroadcastTime
  pc,                \* position in the setInterval callback: "idle", "sim", "end";
                     \* "crashed" once an uncaught exception has ended the process
  steps,             \* const steps of the running callback (0 when the loop is skipped)
  i,                 \* loop index of the catch-up loop
  rng,               \* position of Math.random()'s generator in its stream
  msgs,              \* number of inbound messages handled so far
  op,                \* history: the operation that produced this state
  steer,             \* history: per agent of the last step, the target it was pulled to
  culled,            \* history: number of agents the last step removed
  nextUid,           \* history: serial number given to the next spawned agent
  focusAge,          \* history: playerId -> number of steps since its focus was set
  expiredAge,        \* history: focusAge of the entry the last step deleted, else -1
  lastSentAt,        \* history: now of the latest broadcastState call, else -1
  bcastGap,          \* history: time between the two latest broadcastState calls, else -1
  lastMsg,           \* history: the inbound message handled last
  replaced,          \* history: ttl of the entry the last focusPoint overwrote, else -1
  calls,             \* history: number of stepSimulation calls made so far
  births,            \* history: per uid, the tick at which the agent was spawned
  clients,           \* wss.clients: session -> readyState, "NONE" when not in the set
  received           \* history: session -> the last message ws.send gave it

arena == <<agents, factions, tick, playerFocus>>
sched == <<now, lastSimTime, lastBroadcastTime, pc, steps, i>>
hist  == <<op, steer, culled, nextUid, focusAge, expiredAge, lastSentAt, bcastGap>>
inbox == <<lastMsg, replaced>>
life  == <<calls, births>>
net   == <<clients, received>>
vars  == <<arena, sched, rng, msgs, hist, inbox, life, net>>

----------------------------------------------------------------------------
(* Bounds of the model *)

BatchSize == 2      \* agents per spawned batch (the literal 33 of the source)
MaxMsgs == 2        \* inbound messages handled in one run
MaxNow == 48        \* time horizon of Spec, in ms
LongMsgs == 2       \* inbound messages in one run of LongSpec
SchedMaxNow == 270  \* time horizon of SchedSpec, in ms
MsgMsgs == 3        \* inbound messages in one run of MsgSpec
MsgMaxNow == 32     \* time horizon of MsgSpec, in ms

----------------------------------------------------------------------------
(* Program constants *)

UNIT == 10 ^ 3
MICRO == 10 ^ 6

ARENA_WIDTH == 1280 * UNIT
ARENA_HEIGHT == 720 * UNIT
FIXED_DT_MS == 16
BROADCAST_INTERVAL_MS == 100
DT_DIVISOR == 16666          \* the 16.666 of FIXED_DT_MS / 16.666, in thousandths
maxSpeed == 2500             \* 2.5
SPAWN_RADIUS == 80
FOCUS_TTL == 2 * MICRO       \* ttl: 2.0
AGENT_RADIUS == 3
AGENT_ENERGY == 1 * MICRO    \* energy: 1

NULL == "null"               \* JavaScript null / undefined
PlayerIds == {"p1", "p2"}
Owners == PlayerIds \cup {NULL}

----------------------------------------------------------------------------
(* IEEE-754 values that are not finite *)

Infinity == 2 * (10 ^ 9)
NaN == 0 - Infinity

IsFinite(a) == a # NaN /\ a # Infinity

\* floor((a / b) + 1/2), b > 0: the rounding of a product or quotient
RoundDiv(a, b) == (2 * a + b) \div (2 * b)

\* a + b
fAdd(a, b) ==
  IF a = NaN \/ b = NaN THEN NaN
  ELSE IF a = Infinity \/ b = Infinity THEN Infinity
  ELSE a + b

\* a - b, for b finite or NaN (positions are never infinite)
fSub(a, b) ==
  IF a = NaN \/ b = NaN THEN NaN
  ELSE IF a = Infinity THEN Infinity
  ELSE a - b

\* a * (n / d) for a positive constant n / d
fScale(a, n, d) ==
  IF IsFinite(a) THEN RoundDiv(a * n, d) ELSE a

\* a * a, in MICRO units for a in UNIT
fSquare(a) ==
  IF a = NaN THEN NaN
  ELSE IF a = Infinity THEN Infinity
  ELSE a * a

\* a > b  and  a < b: false when either is NaN
fGt(a, b) == a # NaN /\ b # NaN /\ a > b
fLt(a, b) == a # NaN /\ b # NaN /\ a < b

RECURSIVE SqrtSearch(_, _, _)
SqrtSearch(n, lo, hi) ==
  IF lo >= hi THEN lo
  ELSE LET mid == (lo + hi + 1) \div 2
       IN  IF mid * mid <= n THEN SqrtSearch(n, mid, hi)
           ELSE SqrtSearch(n, lo, mid - 1)

\* Math.sqrt of a MICRO value, in UNIT
fSqrt(a) ==
  IF IsFinite(a) THEN SqrtSearch(a, 0, 46340) ELSE a

\* a / b in thousandths, b > 0 or Infinity
fDiv(a, b) ==
  IF a = NaN \/ b = NaN THEN NaN
  ELSE IF b = Infinity THEN (IF a = Infinity THEN NaN ELSE 0)
  ELSE IF a = Infinity THEN Infinity
  ELSE RoundDiv(a * UNIT, b)

\* a * dtUnits for dtUnits = FIXED_DT_MS / 16.666
MulDt(a) == fScale(a, FIXED_DT_MS * UNIT, DT_DIVISOR)

----------------------------------------------------------------------------
(* Math.random(): a generator with an unknown seed.  The stream is a cycle *)
(* of values; the seed is its starting position.                           *)

RandCycle == <<125, 750, 500, 999, 250, 0, 0, 625, 999, 375, 500, 500, 875>>
Seeds == {1, 5, 9}

\* the value of the k-th call of Math.random() in the running operation, k = 0, 1, ...
Rand(k) == RandCycle[((rng - 1 + k) % Len(RandCycle)) + 1]
\* the generator after n calls
Advance(n) == ((rng - 1 + n) % Len(RandCycle)) + 1

\* Math.cos(r * Math.PI * 2) and Math.sin(r * Math.PI * 2), in thousandths
CosTurn(r) ==
  CASE r = 0 -> 1000 [] r = 125 -> 707 [] r = 250 -> 0 [] r = 375 -> -707
    [] r = 500 -> -1000 [] r = 625 -> -707 [] r = 750 -> 0 [] r = 875 -> 707
    [] r = 999 -> 1000
SinTurn(r) ==
  CASE r = 0 -> 0 [] r = 125 -> 707 [] r = 250 -> 1000 [] r = 375 -> 707
    [] r = 500 -> 0 [] r = 625 -> -707 [] r = 750 -> -1000 [] r = 875 -> -707
    [] r = 999 -> -6

\* Math.floor(Math.random() * 360)
randomHue(r) == (r * 360) \div 1000

\* Math.random().toString(36).slice(2, 8): the first six base-36 digits of the
\* fraction, fewer when the expansion ends earlier
RECURSIVE Base36Frac(_, _)
Base36Frac(f, k) ==
  IF k = 0 \/ f = 0 THEN <<>>
  ELSE <<(f * 36) \div 1000>> \o Base36Frac((f * 36) % 1000, k - 1)
makeFactionId(r) == Base36Frac(r, 6)

----------------------------------------------------------------------------
(* Spawning *)

\* one iteration of the loop of spawnAgentsForFaction; k is the number of
\* Math.random() calls made before it in the running operation
spawnAgent(faction, k, uid) ==
  LET angle == Rand(k)
      dist  == Rand(k + 1) * SPAWN_RADIUS
      speed == 600 + RoundDiv(Rand(k + 2) * 800, 1000)
  IN  [ factionId |-> faction.id,
        x      |-> faction.cx + RoundDiv(CosTurn(angle) * dist, 1000),
        y      |-> faction.cy + RoundDiv(SinTurn(angle) * dist, 1000),
        vx     |-> RoundDiv(CosTurn(angle) * speed, 1000),
        vy     |-> RoundDiv(SinTurn(angle) * speed, 1000),
        radius |-> AGENT_RADIUS,
        energy |-> AGENT_ENERGY,
        uid    |-> uid ]     \* history label, read by no operation

\* spawnAgentsForFaction with the loop test i <= count
spawnAgentsOneMore(faction, count, k, uid) ==
  [ j \in 1 .. count + 1 |-> spawnAgent(faction, k + 3 * (j - 1), uid + j - 1) ]

\* the agents spawnAgentsForFaction(faction, count) pushes
spawnAgentsForFaction(faction, count, k, uid) ==
  [ j \in 1 .. count |-> spawnAgent(faction, k + 3 * (j - 1), uid + j - 1) ]

\* ownerId || null
OrNull(v) == IF v = NULL \/ v = "" THEN NULL ELSE v

\* the faction object literal of spawnNewFaction
NewFaction(ownerId) ==
  [ id       |-> makeFactionId(Rand(0)),
    colorHue |-> randomHue(Rand(1)),
    ownerId  |-> OrNull(ownerId),
    cx       |-> RoundDiv((ARENA_WIDTH \div UNIT) * (2000 + 6 * Rand(2)), 10),
    cy       |-> RoundDiv((ARENA_HEIGHT \div UNIT) * (2000 + 8 * Rand(3)), 10) ]

spawnNewFaction(ownerId) ==
  LET faction == NewFaction(ownerId)
  IN  /\ factions' = Append(factions, faction)
      /\ agents' = agents \o spawnAgentsForFaction(faction, BatchSize, 4, nextUid)
      /\ rng' = Advance(4 + 3 * BatchSize)
      /\ nextUid' = nextUid + BatchSize
      /\ births' = births \o [ j \in 1 .. BatchSize |-> tick ]

\* the second hue without the % 360
OppositeHueNoWrap(h) == h + 180

\* the hue of the second initial faction
OppositeHue(h) == (h + 180) % 360

\* the condition of ensureInitialFactions as a test of the agent list
NeedsBootstrapNoAgents == Len(agents) = 0

\* the energy drain at half the rate
DrainHalf(e) == e - MulDt(400)

\* the condition of ensureInitialFactions as length <= 1
NeedsBootstrapLoose == Len(factions) <= 1

\* the condition of ensureInitialFactions
NeedsBootstrap == Len(factions) = 0

ensureInitialFactions ==
  IF NeedsBootstrap
  THEN LET f1 == [ id |-> makeFactionId(Rand(0)),
                   colorHue |-> randomHue(Rand(1)),
                   ownerId |-> NULL,
                   cx |-> RoundDiv(ARENA_WIDTH * 3, 10),
                   cy |-> RoundDiv(ARENA_HEIGHT * 5, 10) ]
            f2 == [ id |-> makeFactionId(Rand(2)),
                    colorHue |-> OppositeHue(f1.colorHue),
                    ownerId |-> NULL,
                    cx |-> RoundDiv(ARENA_WIDTH * 7, 10),
                    cy |-> RoundDiv(ARENA_HEIGHT * 5, 10) ]
       IN  /\ factions' = factions \o <<f1, f2>>
           /\ agents' = agents
                  \o spawnAgentsForFaction(f1, BatchSize, 3, nextUid)
                  \o spawnAgentsForFaction(f2, BatchSize, 3 + 3 * BatchSize,
                                           nextUid + BatchSize)
           /\ rng' = Advance(3 + 6 * BatchSize)
           /\ nextUid' = nextUid + 2 * BatchSize
           /\ births' = births \o [ j \in 1 .. 2 * BatchSize |-> tick ]
  ELSE UNCHANGED <<factions, agents, rng, nextUid, births>>

\* Optional chaos/nudge: (Math.random() - 0.5) * 1.8 on each axis of each agent
addChaos ==
  /\ agents' = [ k \in 1 .. Len(agents) |->
        [ agents[k] EXCEPT
            !.vx = fAdd(@, RoundDiv((Rand(2 * (k - 1)) - 500) * 1800, 1000)),
            !.vy = fAdd(@, RoundDiv((Rand(2 * (k - 1) + 1) - 500) * 1800, 1000)) ] ]
  /\ rng' = Advance(2 * Len(agents))

----------------------------------------------------------------------------
(* The physics step *)

EmptyMap == [ q \in {} |-> 0 ]

\* factionMap[id] is defined / is the last faction of the list that carries the id
KnownFaction(id) == \E k \in 1 .. Len(factions) : factions[k].id = id
FactionOf(id) ==
  LET S == { k \in 1 .. Len(factions) : factions[k].id = id }
  IN  factions[CHOOSE k \in S : \A m \in S : m <= k]

\* the two wrap statements of one axis
Wrap(p, size) ==
  LET q == IF fLt(p, 0) THEN fAdd(p, size) ELSE p
  IN  IF fGt(q, size) THEN fSub(q, size) ELSE q

\* the energy drain with the sign reversed
DrainGain(e) == e + MulDt(800)

\* energy drain of one step
Drain(e) == e - MulDt(800)

\* the body of the loop over agents, for agent a under the focus map pf, with
\* jx and jy the two Math.random() results
stepAgent(a, pf, jx, jy) ==
  LET jvx == fAdd(a.vx, MulDt(RoundDiv((jx - 500) * 120, 1000)))
      jvy == fAdd(a.vy, MulDt(RoundDiv((jy - 500) * 120, 1000)))
      known == KnownFaction(a.factionId)
      faction == FactionOf(a.factionId)
      focused == /\ known
                 /\ faction.ownerId # NULL
                 /\ faction.ownerId \in DOMAIN pf
      owner == faction.ownerId
      target == IF ~known THEN <<>>
                ELSE IF focused THEN <<pf[owner].x, pf[owner].y>>
                ELSE <<faction.cx, faction.cy>>
      ttl == pf[owner].ttl - MulDt(16000)
      pf2 == IF ~focused THEN pf
             ELSE IF ttl <= 0 THEN [ q \in DOMAIN pf \ {owner} |-> pf[q] ]
             ELSE [ pf EXCEPT ![owner].ttl = ttl ]
      svx == IF ~known THEN jvx
             ELSE fAdd(jvx, MulDt(fScale(fSub(target[1], a.x), 8, 10000)))
      svy == IF ~known THEN jvy
             ELSE fAdd(jvy, MulDt(fScale(fSub(target[2], a.y), 8, 10000)))
      speedSq == fAdd(fSquare(svx), fSquare(svy))
      fast == fGt(speedSq, maxSpeed * maxSpeed)
      mag == fSqrt(speedSq)
      cvx == IF fast THEN fScale(fDiv(svx, mag), maxSpeed, UNIT) ELSE svx
      cvy == IF fast THEN fScale(fDiv(svy, mag), maxSpeed, UNIT) ELSE svy
  IN  [ a |-> [ a EXCEPT !.vx = cvx, !.vy = cvy,
                         !.x = Wrap(fAdd(a.x, MulDt(cvx)), ARENA_WIDTH),
                         !.y = Wrap(fAdd(a.y, MulDt(cvy)), ARENA_HEIGHT),
                         !.energy = Drain(a.energy) ],
        pf |-> pf2,
        target |-> target ]

\* the loop over agents from index k on; acc holds the agents updated so far,
\* the focus map and the targets used
RECURSIVE StepLoop(_, _)
StepLoop(k, acc) ==
  IF k > Len(agents) THEN acc
  ELSE LET r == stepAgent(agents[k], acc.pf, Rand(2 * (k - 1)), Rand(2 * (k - 1) + 1))
       IN  StepLoop(k + 1, [ agents |-> Append(acc.agents, r.a),
                             pf |-> r.pf,
                             steer |-> Append(acc.steer, r.target) ])

\* remove dead agents: for (i = length - 1; i >= 0; i--) splice when energy <= 0
RECURSIVE CullFrom(_, _, _)
CullFrom(s, k, last) ==
  IF k < last THEN s
  ELSE CullFrom(IF s[k].energy <= 0
                THEN SubSeq(s, 1, k - 1) \o SubSeq(s, k + 1, Len(s))
                ELSE s,
                k - 1, last)
\* the cull loop with the test i > 0
removeDeadSkipFirst(s) == CullFrom(s, Len(s), 2)

removeDead(s) == CullFrom(s, Len(s), 1)

\* arenaState.tick++ skipped when there is no agent to simulate
TickAfterStepIfAgents == IF Len(agents) = 0 THEN tick ELSE tick + 1

\* arenaState.tick++
TickAfterStep == tick + 1

stepSimulation ==
  LET r == StepLoop(1, [ agents |-> <<>>, pf |-> playerFocus, steer |-> <<>> ])
      gone == DOMAIN playerFocus \ DOMAIN r.pf
  IN  /\ agents' = removeDead(r.agents)
      /\ playerFocus' = r.pf
      /\ tick' = TickAfterStep
      /\ calls' = calls + 1
      /\ rng' = Advance(2 * Len(agents))
      /\ steer' = r.steer
      /\ culled' = Len(agents) - Len(agents')
      /\ focusAge' = [ q \in DOMAIN r.pf |-> focusAge[q] + 1 ]
      /\ expiredAge' = IF gone = {} THEN -1
                       ELSE LET q == CHOOSE q \in gone :
                                       \A o \in gone : focusAge[q] <= focusAge[o]
                            IN  focusAge[q] + 1
      /\ UNCHANGED <<factions, nextUid, births>>

----------------------------------------------------------------------------------------------------------------------------------------
(* Sessions and the snapshot broadcast.  A message handed to ws.send is     *)
(* kept as the object JSON.stringify was given, with the numbers as         *)
(* JSON.stringify writes them.                                              *)

Sessions == {"s1", "s2"}

\* nothing sent to the session yet
NoFrame == [ type |-> "none" ]

\* the message of the connection handler
HelloMessage == [ type |-> "hello", message |-> "Connected to Midway server" ]

\* JSON.stringify of a number: null for NaN and the infinities
JsonNumber(v) == IF IsFinite(v) THEN v ELSE NULL

\* { type: "state", state: snapshot }
StateMessage ==
  [ type |-> "state",
    state |->
      [ tick |-> tick,
        factions |-> [ k \in 1 .. Len(factions) |->
            [ id |-> factions[k].id,
              colorHue |-> factions[k].colorHue,
              ownerId |-> OrNull(factions[k].ownerId),
              cx |-> JsonNumber(factions[k].cx),
              cy |-> JsonNumber(factions[k].cy) ] ],
        agents |-> [ k \in 1 .. Len(agents) |->
            [ x |-> JsonNumber(agents[k].x),
              y |-> JsonNumber(agents[k].y),
              r |-> agents[k].radius,
              factionId |-> agents[k].factionId ] ] ] ]

\* the test of the send loop taken for membership in wss.clients
IsClient(s) == clients[s] # "NONE"

\* ws.readyState === WebSocket.OPEN
IsOpen(s) == clients[s] = "OPEN"

broadcastState ==
  /\ lastSentAt' = now
  /\ bcastGap' = IF lastSentAt = -1 THEN -1 ELSE now - lastSentAt
  /\ received' = [ s \in Sessions |->
                     IF IsOpen(s) THEN StateMessage ELSE received[s] ]

\* wss.on("connection"): the session joins wss.clients and is sent the hello
Connect(s) ==
  /\ pc = "idle"
  /\ clients[s] = "NONE"
  /\ clients' = [ clients EXCEPT ![s] = "OPEN" ]
  /\ received' = [ received EXCEPT ![s] = HelloMessage ]
  /\ op' = "connection"
  /\ UNCHANGED <<arena, now, lastSimTime, lastBroadcastTime, pc, steps, i, rng, msgs,
                 steer, culled, nextUid, focusAge, expiredAge, lastSentAt, bcastGap,
                 inbox, life>>

\* the closing handshake of a session starts: readyState becomes CLOSING
\* while the session is still in wss.clients
BeginClose(s) ==
  /\ pc = "idle"
  /\ clients[s] = "OPEN"
  /\ clients' = [ clients EXCEPT ![s] = "CLOSING" ]
  /\ op' = "closing"
  /\ UNCHANGED <<arena, now, lastSimTime, lastBroadcastTime, pc, steps, i, rng, msgs,
                 steer, culled, nextUid, focusAge, expiredAge, lastSentAt, bcastGap,
                 inbox, life, received>>

\* ws.on("close"): the session has left wss.clients
OnClose(s) ==
  /\ pc = "idle"
  /\ clients[s] # "NONE"
  /\ clients' = [ clients EXCEPT ![s] = "NONE" ]
  /\ received' = [ received EXCEPT ![s] = NoFrame ]
  /\ op' = "close"
  /\ UNCHANGED <<arena, now, lastSimTime, lastBroadcastTime, pc, steps, i, rng, msgs,
                 steer, culled, nextUid, focusAge, expiredAge, lastSentAt, bcastGap,
                 inbox, life>>

----------------------------------------------------------------------------
(* Inbound messages.  A message is the text of a frame, kept as what        *)
(* JSON.parse makes of it: json is "invalid" when JSON.parse throws, "null" *)
(* for the text null, "primitive" for a number, a string or a boolean, and  *)
(* "object" for an object; the fields of an object are NULL when the        *)
(* message does not carry them, and xType and yType are typeof msg.x and    *)
(* typeof msg.y.                                                            *)

Payload(json, type, playerId, xType, x, yType, y) ==
  [ json |-> json, type |-> type, playerId |-> playerId,
    xType |-> xType, x |-> x, yType |-> yType, y |-> y ]

\* an object whose x and y are numbers
Command(type, playerId, x, y) ==
  Payload("object", type, playerId, "number", x, "number", y)

NoMessage == Payload("none", NULL, NULL, "undefined", 0, "undefined", 0)

\* JSON.parse(data.toString()) throws, and the catch returns
ParseFails(m) == m.json = "invalid"

\* msg.type throws a TypeError: msg is null
TypeReadThrows(m) == m.json = "null"

\* msg.type, undefined on a primitive
TypeField(m) == IF m.json = "object" THEN m.type ELSE NULL

\* msg.playerId && typeof msg.x === "number" && typeof msg.y === "number"
FocusAccepted(m) ==
  /\ m.playerId # NULL /\ m.playerId # ""
  /\ m.xType = "number"
  /\ m.yType = "number"

\* the assignment of the focusPoint branch, keeping the ttl of an entry that
\* is already there
setFocusKeepTtl(playerId, x, y) ==
  /\ playerFocus' = [ q \in DOMAIN playerFocus \cup {playerId} |->
                        IF q = playerId
                        THEN [ x |-> x, y |-> y,
                               ttl |-> IF playerId \in DOMAIN playerFocus
                                       THEN playerFocus[playerId].ttl
                                       ELSE FOCUS_TTL ]
                        ELSE playerFocus[q] ]
  /\ focusAge' = [ q \in DOMAIN playerFocus \cup {playerId} |->
                        IF q = playerId THEN 0 ELSE focusAge[q] ]
  /\ replaced' = IF playerId \in DOMAIN playerFocus
                 THEN playerFocus[playerId].ttl ELSE -1

\* arenaState.playerFocus[playerId] = { x, y, ttl: 2.0 }
setFocus(playerId, x, y) ==
  /\ playerFocus' = [ q \in DOMAIN playerFocus \cup {playerId} |->
                        IF q = playerId THEN [ x |-> x, y |-> y, ttl |-> FOCUS_TTL ]
                        ELSE playerFocus[q] ]
  /\ focusAge' = [ q \in DOMAIN playerFocus \cup {playerId} |->
                        IF q = playerId THEN 0 ELSE focusAge[q] ]
  /\ replaced' = IF playerId \in DOMAIN playerFocus
                 THEN playerFocus[playerId].ttl ELSE -1

CommandTypes == {"spawnFaction", "addChaos", "focusPoint"}

\* ws.on("message"): runs between timer callbacks.  An exception that leaves
\* the handler is caught by nothing: the process ends (pc = "crashed").
OnMessage(m) ==
  /\ pc = "idle"
  /\ msgs' = msgs + 1
  /\ lastMsg' = m
  /\ op' = IF ~ParseFails(m) /\ ~TypeReadThrows(m) /\ TypeField(m) \in CommandTypes
           THEN TypeField(m) ELSE "other"
  /\ pc' = IF ~ParseFails(m) /\ TypeReadThrows(m) THEN "crashed" ELSE pc
  /\ CASE ParseFails(m) \/ TypeReadThrows(m) ->
            UNCHANGED <<arena, rng, focusAge, nextUid, births, replaced>>
       [] TypeField(m) = "spawnFaction" ->
            /\ spawnNewFaction(m.playerId)
            /\ UNCHANGED <<tick, playerFocus, focusAge, replaced>>
       [] TypeField(m) = "addChaos" ->
            /\ addChaos
            /\ UNCHANGED <<factions, tick, playerFocus, focusAge, nextUid, births,
                           replaced>>
       [] TypeField(m) = "focusPoint" ->
            /\ IF FocusAccepted(m)
               THEN setFocus(m.playerId, m.x, m.y)
               ELSE UNCHANGED <<playerFocus, focusAge, replaced>>
            /\ UNCHANGED <<agents, factions, tick, rng, nextUid, births>>
       [] OTHER -> UNCHANGED <<arena, rng, focusAge, nextUid, births, replaced>>
  /\ UNCHANGED <<now, lastSimTime, lastBroadcastTime, steps, i,
                 steer, culled, expiredAge, lastSentAt, bcastGap, calls, net>>

----------------------------------------------------------------------------
(* The main loop: the setInterval callback, in three positions *)

\* the callback starts: Date.now() is sampled delta ms after the last sample,
\* ensureInitialFactions runs, and steps is computed
TimerFire(delta) ==
  /\ pc = "idle"
  /\ now' = now + delta
  /\ ensureInitialFactions
  /\ LET due == now' - lastSimTime >= FIXED_DT_MS
     IN  /\ steps' = IF due THEN (now' - lastSimTime) \div FIXED_DT_MS ELSE 0
         /\ pc' = IF due THEN "sim" ELSE "end"
  /\ i' = 0
  /\ op' = "timer"
  /\ UNCHANGED <<tick, playerFocus, lastSimTime, lastBroadcastTime, msgs,
                 steer, culled, focusAge, expiredAge, lastSentAt, bcastGap, inbox,
                 calls, net>>

\* one iteration of the catch-up loop: stepSimulation(FIXED_DT_MS / 16.666)
Step ==
  /\ pc = "sim"
  /\ stepSimulation
  /\ i' = i + 1
  /\ pc' = IF i + 1 < steps THEN "sim" ELSE "end"
  /\ op' = "step"
  /\ UNCHANGED <<now, lastSimTime, lastBroadcastTime, steps, msgs,
                 lastSentAt, bcastGap, inbox, net>>

\* lastBroadcastTime advanced by one period instead
BroadcastStampAdvance == lastBroadcastTime + BROADCAST_INTERVAL_MS

\* the value lastBroadcastTime takes when a broadcast is due
BroadcastStamp == now

\* the rest of the callback: lastSimTime += steps * FIXED_DT_MS, then the
\* broadcast test
EndTick ==
  /\ pc = "end"
  /\ lastSimTime' = lastSimTime + steps * FIXED_DT_MS
  /\ IF now - lastBroadcastTime >= BROADCAST_INTERVAL_MS
     THEN /\ lastBroadcastTime' = BroadcastStamp
          /\ broadcastState
     ELSE UNCHANGED <<lastBroadcastTime, lastSentAt, bcastGap, received>>
  /\ pc' = "idle"
  /\ steps' = 0
  /\ i' = 0
  /\ op' = "end"
  /\ UNCHANGED <<arena, now, rng, msgs, steer, culled, nextUid, focusAge, expiredAge,
                 inbox, life, clients>>

----------------------------------------------------------------------------
(* Specifications *)

InitAt(seeds) ==
  /\ agents = <<>>
  /\ factions = <<>>
  /\ tick = 0
  /\ playerFocus = EmptyMap
  /\ now = 0
  /\ lastSimTime = 0
  /\ lastBroadcastTime = 0
  /\ pc = "idle"
  /\ steps = 0
  /\ i = 0
  /\ rng \in seeds
  /\ msgs = 0
  /\ op = "init"
  /\ steer = <<>>
  /\ culled = 0
  /\ nextUid = 1
  /\ focusAge = EmptyMap
  /\ expiredAge = -1
  /\ lastSentAt = -1
  /\ bcastGap = -1
  /\ lastMsg = NoMessage
  /\ replaced = -1
  /\ calls = 0
  /\ births = <<>>
  /\ clients = [ s \in Sessions |-> "NONE" ]
  /\ received = [ s \in Sessions |-> NoFrame ]

\* Spec: every command, timer periods around the nominal 16 ms, a short horizon
FocusPoints == { <<100 * UNIT, 700 * UNIT>>, <<Infinity, 200 * UNIT>> }
Commands ==
  { Command("spawnFaction", p, 0, 0) : p \in Owners } \cup
  { Command("addChaos", NULL, 0, 0) } \cup
  { Command("focusPoint", p, pt[1], pt[2]) : p \in PlayerIds, pt \in FocusPoints }
Deltas == {15, 16, 33}

Init == InitAt(Seeds)
Next ==
  \/ \E d \in Deltas : now + d <= MaxNow /\ TimerFire(d)
  \/ Step
  \/ EndTick
  \/ \E m \in Commands : msgs < MaxMsgs /\ OnMessage(m)
Spec == Init /\ [][Next]_vars

\* LongSpec: a timer callback delayed long enough for agents to use up their
\* energy in its catch-up loop
Stall == 1302 * FIXED_DT_MS
LongDeltas == {Stall}
LongMaxNow == 3 * Stall
LongCommands ==
  { Command("spawnFaction", "p1", 0, 0),
    Command("focusPoint", "p1", 100 * UNIT, 700 * UNIT) }

LongInit == InitAt({1})
LongNext ==
  \/ \E d \in LongDeltas : now + d <= LongMaxNow /\ TimerFire(d)
  \/ Step
  \/ EndTick
  \/ \E m \in LongCommands : msgs < LongMsgs /\ OnMessage(m)
LongSpec == LongInit /\ [][LongNext]_vars

\* SchedSpec: the main loop and the sessions, without commands, under early,
\* late and stalled timers
SchedDeltas == {15, 16, 100, 250}

SchedInit == InitAt({1})
SchedNext ==
  \/ \E d \in SchedDeltas : now + d <= SchedMaxNow /\ TimerFire(d)
  \/ Step
  \/ EndTick
  \/ \E s \in Sessions : Connect(s)
  \/ \E s \in Sessions : BeginClose(s)
  \/ \E s \in Sessions : OnClose(s)
SchedSpec == SchedInit /\ [][SchedNext]_vars

\* MsgSpec: the message handler under every kind of inbound text, between
\* timer callbacks at the nominal period
NotCommands ==
  { Payload("invalid", NULL, NULL, "undefined", 0, "undefined", 0),
    Payload("null", NULL, NULL, "undefined", 0, "undefined", 0),
    Payload("primitive", NULL, NULL, "undefined", 0, "undefined", 0),
    Payload("object", NULL, "p1", "number", 100 * UNIT, "number", 700 * UNIT),
    Payload("object", "dance", "p1", "number", 100 * UNIT, "number", 700 * UNIT) }
FocusCommands ==
  { Command("focusPoint", "p1", 100 * UNIT, 700 * UNIT),
    Command("focusPoint", "p1", 900 * UNIT, 100 * UNIT),
    Command("focusPoint", "p2", 100 * UNIT, 700 * UNIT),
    Command("focusPoint", NULL, 100 * UNIT, 700 * UNIT),
    Command("focusPoint", "", 100 * UNIT, 700 * UNIT),
    Payload("object", "focusPoint", "p1", "string", 0, "number", 700 * UNIT),
    Payload("object", "focusPoint", "p1", "number", 100 * UNIT, "undefined", 0) }
MsgCommands ==
  { Command("spawnFaction", "p1", 0, 0) } \cup FocusCommands \cup NotCommands
MsgDeltas == {FIXED_DT_MS}

MsgInit == InitAt({1})
MsgNext ==
  \/ \E d \in MsgDeltas : now + d <= MsgMaxNow /\ TimerFire(d)
  \/ Step
  \/ EndTick
  \/ \E m \in MsgCommands : msgs < MsgMsgs /\ OnMessage(m)
MsgSpec == MsgInit /\ [][MsgNext]_vars

----------------------------------------------------------------------------
(* Claims *)

InRange(p, size) == IsFinite(p) /\ 0 <= p /\ p < size

\* C1: after any stepSimulation call every agent has 0 <= x < ARENA_WIDTH and
\* 0 <= y < ARENA_HEIGHT; none is left on the upper boundary.
C1_InArenaAfterStep ==
  op = "step" =>
    \A k \in 1 .. Len(agents) :
      InRange(agents[k].x, ARENA_WIDTH) /\ InRange(agents[k].y, ARENA_HEIGHT)

\* C2: after any stepSimulation call no agent with energy <= 0 is left in
\* arenaState.agents.
C2_NoDeadAgentAfterStep ==
  op = "step" => \A k \in 1 .. Len(agents) : agents[k].energy > 0

\* a step has removed agents and left others alive
C2_Witness == op = "step" /\ culled > 0 /\ Len(agents) > 0

SpeedTolerance == UNIT \div 200

\* C3: after any stepSimulation call every agent's speed sqrt(vx^2 + vy^2) is at
\* most maxSpeed, up to rounding.
C3_SpeedClampedAfterStep ==
  op = "step" =>
    \A k \in 1 .. Len(agents) :
      /\ IsFinite(agents[k].vx) /\ IsFinite(agents[k].vy)
      /\ agents[k].vx * agents[k].vx + agents[k].vy * agents[k].vy
           <= (maxSpeed + SpeedTolerance) * (maxSpeed + SpeedTolerance)

\* 2.0 / 0.016 steps
FocusSteps == FOCUS_TTL \div 16000

\* C4: a focus entry set by focusPoint is removed by stepSimulation no earlier
\* than 2.0 / 0.016 = 125 steps after it was set.
C4_FocusLastsItsTtl == expiredAge = -1 \/ expiredAge >= FocusSteps

\* C5: in a step that starts with a focus entry for player P, every agent of a
\* faction owned by P is pulled toward the focus point; every other agent is
\* pulled toward its faction's center.
C5_OwnedAgentsSteerToFocus ==
  [][ op' = "step" =>
        \A k \in 1 .. Len(agents) :
          LET f == FactionOf(agents[k].factionId)
          IN  steer'[k] =
                IF f.ownerId # NULL /\ f.ownerId \in DOMAIN playerFocus
                THEN <<playerFocus[f.ownerId].x, playerFocus[f.ownerId].y>>
                ELSE <<f.cx, f.cy>> ]_vars

\* C6: no operation increases the energy of an existing agent; in particular an
\* agent present before and after a stepSimulation call has no more energy after.
C6_EnergyNeverIncreases ==
  [][ \A k \in 1 .. Len(agents') : \A j \in 1 .. Len(agents) :
        agents'[k].uid = agents[j].uid => agents'[k].energy <= agents[j].energy ]_vars

\* a step has left an agent alive with less energy than it was spawned with
C6_Witness ==
  op = "step" /\ \E k \in 1 .. Len(agents) : agents[k].energy < AGENT_ENERGY

\* C7: ensureInitialFactions changes nothing of arenaState when factions exist.
C7_EnsureIdempotent ==
  [][ (op' = "timer" /\ Len(factions) > 0) => UNCHANGED arena ]_vars

\* the callback has started again after a tick that already had factions
C7_Witness == op = "timer" /\ tick > 0 /\ Len(factions) > 0

\* C8: with no faction, ensureInitialFactions creates exactly two factions with
\* no owner, centers (0.3 W, 0.5 H) and (0.7 W, 0.5 H), hues in [0, 360) that
\* differ by 180 modulo 360, and one batch of agents for each.
C8_Bootstrap ==
  [][ (op' = "timer" /\ Len(factions) = 0) =>
        /\ Len(factions') = 2
        /\ \A k \in 1 .. 2 :
             /\ factions'[k].ownerId = NULL
             /\ factions'[k].colorHue \in 0 .. 359
             /\ factions'[k].cy = (5 * ARENA_HEIGHT) \div 10
        /\ factions'[1].cx = (3 * ARENA_WIDTH) \div 10
        /\ factions'[2].cx = (7 * ARENA_WIDTH) \div 10
        /\ (factions'[2].colorHue - factions'[1].colorHue) % 360 = 180
        /\ Len(agents') = Len(agents) + 2 * BatchSize
        /\ \A k \in 1 .. BatchSize :
             /\ agents'[Len(agents) + k].factionId = factions'[1].id
             /\ agents'[Len(agents) + BatchSize + k].factionId = factions'[2].id ]_vars

\* the bootstrap has run and the second hue wrapped around 360
C8_Witness ==
  /\ op = "timer" /\ tick = 0 /\ Len(factions) = 2
  /\ Len(agents) = 2 * BatchSize
  /\ factions[1].colorHue >= 180

\* squared distance test in 1/100 units
WithinSpawnRadius(a, f) ==
  LET dx == RoundDiv(a.x - f.cx, 10)
      dy == RoundDiv(a.y - f.cy, 10)
  IN  dx * dx + dy * dy <= (SPAWN_RADIUS * 100) * (SPAWN_RADIUS * 100)

\* C9: spawnNewFaction appends one faction and one batch of agents, all with
\* that faction's id, energy 1 and radius 3, each within 80 units of the
\* faction's center, and leaves the earlier factions and agents as they were.
C9_SpawnNewFaction ==
  [][ op' = "spawnFaction" =>
        /\ Len(factions') = Len(factions) + 1
        /\ SubSeq(factions', 1, Len(factions)) = factions
        /\ Len(agents') = Len(agents) + BatchSize
        /\ SubSeq(agents', 1, Len(agents)) = agents
        /\ \A k \in Len(agents) + 1 .. Len(agents') :
             /\ agents'[k].factionId = factions'[Len(factions')].id
             /\ agents'[k].energy = AGENT_ENERGY
             /\ agents'[k].radius = AGENT_RADIUS
             /\ WithinSpawnRadius(agents'[k], factions'[Len(factions')]) ]_vars

\* a faction has been spawned into an arena that already held agents
C9_Witness ==
  op = "spawnFaction" /\ Len(factions) >= 2 /\ Len(agents) > BatchSize

\* C10: two consecutive broadcastState calls of the main loop are at least
\* BROADCAST_INTERVAL_MS apart.
C10_BroadcastPeriod == bcastGap = -1 \/ bcastGap >= BROADCAST_INTERVAL_MS

\* the main loop has broadcast twice
C10_Witness == bcastGap >= 0

\* a number of catch-up steps that a cap on the loop would not let through:
\* a thousand periods, sixteen seconds of backlog
CatchUpLimit == 10 ^ 3

\* C11: a single timer callback runs at most a fixed maximum number of
\* stepSimulation calls, however long the callback was delayed.
C11_CatchUpBounded == steps <= CatchUpLimit

\* C12: neither driver compounds drift: lastSimTime stays a whole number of
\* FIXED_DT_MS away from its initial value, and lastBroadcastTime a whole
\* number of BROADCAST_INTERVAL_MS away from its own; neither is set to the
\* sampled clock.
C12_NoDrift ==
  /\ lastSimTime % FIXED_DT_MS = 0
  /\ lastBroadcastTime % BROADCAST_INTERVAL_MS = 0

\* C13: an inbound message that is not a well-formed command (text that does
\* not decode, JSON that is not an object, an object with a missing or
\* unknown type) is dropped: the handler returns without raising an error
\* and arenaState is as it was.
C13_NotCommandDropped ==
  [][ op' = "other" => pc' = "idle" /\ UNCHANGED arena ]_vars

\* C14: a focusPoint message with a non-empty playerId and numeric x and y
\* sets playerFocus[playerId] to {x, y, ttl 2.0}, over any entry that was
\* there, and changes nothing else of arenaState; any other focusPoint
\* message changes nothing and raises no error.
C14_FocusPoint ==
  [][ op' = "focusPoint" =>
        LET m == lastMsg'
        IN  /\ pc' = "idle"
            /\ UNCHANGED <<agents, factions, tick>>
            /\ IF /\ m.playerId \in PlayerIds
                  /\ m.xType = "number" /\ m.yType = "number"
               THEN /\ DOMAIN playerFocus' = DOMAIN playerFocus \cup {m.playerId}
                    /\ playerFocus'[m.playerId] =
                         [ x |-> m.x, y |-> m.y, ttl |-> FOCUS_TTL ]
                    /\ \A q \in DOMAIN playerFocus \ {m.playerId} :
                         playerFocus'[q] = playerFocus[q]
               ELSE UNCHANGED playerFocus ]_vars

\* a focusPoint has overwritten an entry whose ttl had run down
C14_Witness ==
  /\ op = "focusPoint"
  /\ replaced > 0 /\ replaced < FOCUS_TTL
  /\ playerFocus[lastMsg.playerId].ttl = FOCUS_TTL

\* C15: the world recovers from being empty.  With no agents left and no
\* command arriving, agents can only come from ensureInitialFactions, whose
\* test reads nothing a timer callback changes; so the bootstrap repopulates
\* the world eventually exactly when the next callback's bootstrap does: a
\* callback that starts with no agents has agents after its bootstrap.
C15_EmptyWorldRecovers ==
  [][ op' = "timer" /\ Len(agents) = 0 => Len(agents') > 0 ]_vars

\* C16: every stepSimulation call adds exactly 1 to tick, also with no agent
\* left; no other operation changes tick; so tick is the number of
\* stepSimulation calls made so far.
C16_TickCountsSteps ==
  /\ [](tick = calls)
  /\ [][ tick' = IF op' = "step" THEN tick + 1 ELSE tick ]_vars

\* a step has run on an empty agent list
C16_Witness == op = "step" /\ Len(agents) = 0 /\ culled = 0 /\ tick = calls

\* C17: broadcastState gives the same state message, carrying the current
\* tick and every faction and agent, to every session that is OPEN and to no
\* other session; a session that is closing does not keep the others from
\* getting it; arenaState is not modified.
C17_BroadcastToOpenSessions ==
  [][ op' = "end" /\ lastSentAt' # lastSentAt =>
        /\ UNCHANGED arena
        /\ \A s \in Sessions :
             IF clients[s] = "OPEN"
             THEN /\ received'[s].type = "state"
                  /\ received'[s].state.tick = tick
                  /\ Len(received'[s].state.factions) = Len(factions)
                  /\ \A k \in 1 .. Len(factions) :
                       /\ received'[s].state.factions[k].id = factions[k].id
                       /\ received'[s].state.factions[k].colorHue = factions[k].colorHue
                  /\ Len(received'[s].state.agents) = Len(agents)
                  /\ \A k \in 1 .. Len(agents) :
                       /\ received'[s].state.agents[k].factionId = agents[k].factionId
                       /\ received'[s].state.agents[k].x = agents[k].x
                       /\ received'[s].state.agents[k].y = agents[k].y
                  /\ \A t \in Sessions :
                       clients[t] = "OPEN" => received'[t] = received'[s]
             ELSE received'[s] = received[s] ]_vars

\* a broadcast has reached an open session while the other one was closing
C17_Witness ==
  /\ op = "end" /\ lastSentAt = now
  /\ \E s, t \in Sessions :
       /\ clients[s] = "OPEN" /\ received[s].type = "state"
       /\ received[s].state.tick = tick /\ tick > 0
       /\ clients[t] = "CLOSING" /\ received[t].type = "hello"

\* C18: every playerFocus entry that is present before and after a step has
\* a strictly smaller ttl after it, whether or not its player owns a faction
\* or a living agent, and no entry is left with ttl <= 0 after a step.
C18_FocusTtlDecreases ==
  [][ op' = "step" =>
        /\ \A q \in DOMAIN playerFocus \cap DOMAIN playerFocus' :
             playerFocus'[q].ttl < playerFocus[q].ttl
        /\ \A q \in DOMAIN playerFocus' : playerFocus'[q].ttl > 0 ]_vars

\* C19: factions are never removed: the faction list only grows at its end;
\* once a timer callback has run it is never empty; ensureInitialFactions
\* adds factions only to an empty list, hence at most once in a run; and the
\* factionId of every agent is the id of a faction of the list.
C19_FactionsStay ==
  /\ [][ /\ Len(factions') >= Len(factions)
         /\ SubSeq(factions', 1, Len(factions)) = factions
         /\ (op' = "timer" /\ factions' # factions => Len(factions) = 0) ]_vars
  /\ [](now > 0 => Len(factions) > 0)
  /\ [](\A k \in 1 .. Len(agents) : KnownFaction(agents[k].factionId))

\* every agent has been culled and the factions are still there, at the
\* start of a later callback
C19_Witness ==
  op = "timer" /\ Len(agents) = 0 /\ Len(factions) >= 2 /\ tick > 0

\* the decay of one step, 0.0008 * dt
StepDecay == MulDt(800)

\* the agent with serial number u is in the list
Alive(u) == \E k \in 1 .. Len(agents) : agents[k].uid = u

\* C20: an agent spawned with energy 1 stays in the list exactly as long as
\* its accumulated decay is below 1 and is removed by the step in which the
\* decay reaches 1; the agents of one batch are removed in the same step;
\* the number of agents changes only by one batch in spawnNewFaction, by two
\* batches in the bootstrap, and by the cull of stepSimulation.
C20_FixedLifetime ==
  /\ [](\A u \in 1 .. Len(births) :
          Alive(u) <=> (tick - births[u]) * StepDecay < AGENT_ENERGY)
  /\ [](\A k \in 1 .. Len(agents) :
          agents[k].energy =
            AGENT_ENERGY - (tick - births[agents[k].uid]) * StepDecay)
  /\ [](\A u, v \in 1 .. Len(births) :
          (u - 1) \div BatchSize = (v - 1) \div BatchSize => (Alive(u) <=> Alive(v)))
  /\ [][ Len(agents') - Len(agents) =
           CASE op' = "spawnFaction" -> BatchSize
             [] op' = "timer" -> IF Len(factions) = 0 THEN 2 * BatchSize ELSE 0
             [] op' = "step" -> 0 - culled'
             [] OTHER -> 0 ]_vars

\* a step has removed the whole of one batch and left a younger one
C20_Witness ==
  /\ op = "step" /\ culled >= BatchSize
  /\ \E u \in 1 .. Len(births) : Alive(u) /\ births[u] > 0
  /\ \E u \in 1 .. Len(births) : ~Alive(u)

====
